---- MODULE Spec2Model ----
(***************************************************************************)
(* Model of the story transformation pipeline                              *)
(* (src/story_transformer.py) and of its command line entry (src/run.py).  *)
(*                                                                         *)
(* A run of StoryTransformer.transform is a sequential program that blocks *)
(* on remote completion calls.  The model cuts it at those calls: one      *)
(* action per straight-line piece of code between two remote calls.        *)
(* Strings are sequences of characters, JSON values are tagged records,    *)
(* and the remote service is the environment: each attempt either raises   *)
(* one of the fault kinds or returns one of the texts of a catalogue.      *)
(***************************************************************************)
EXTENDS Integers, Sequences, FiniteSets, TLC

(***************************************************************************)
(* Bounds of the model                                                     *)
(***************************************************************************)
\* input strings are at most this much longer than the minimum length their
\* stage asks for, and carry at most this much whitespace at either end
MaxPad == 1

(***************************************************************************)
(* Program constants                                                       *)
(***************************************************************************)
MAX_RETRIES == 3
RETRY_DELAY == 2
MinStoryLen == 50
MinTargetLen == 3
MinRawLen == 50

valid_styles == <<"narrative", "screenplay", "satirical", "epic">>

\* the attributes the class StoryTransformer defines
Methods == {"__init__", "_call_llm", "extract", "map_to_setting",
            "generate", "transform"}

\* the attribute run.py looks up on the transformer
EntryPoint == "run_pipeline"

(***************************************************************************)
(* Strings: sequences of characters                                        *)
(***************************************************************************)
None == <<"None">>

Whitespace == {" ", "\n", "\t"}

RECURSIVE lstrip(_)
lstrip(s) ==
    IF s = <<>> THEN s
    ELSE IF Head(s) \in Whitespace THEN lstrip(Tail(s)) ELSE s

RECURSIVE rstrip(_)
rstrip(s) ==
    IF s = <<>> THEN s
    ELSE IF s[Len(s)] \in Whitespace THEN rstrip(SubSeq(s, 1, Len(s) - 1))
         ELSE s

\* str.strip()
strip(s) == rstrip(lstrip(s))

\* str.lower() on the characters the inputs are made of
lower(s) == [i \in 1..Len(s) |-> IF s[i] = "C" THEN "c" ELSE s[i]]

\* a run of n whitespace characters
Pad(n) == [i \in 1..n |-> IF i % 2 = 1 THEN " " ELSE "\n"]

\* a text of n characters that neither starts nor ends with whitespace but
\* has whitespace inside
Body(n) == [i \in 1..n |-> IF i = 2 /\ n > 2 THEN " " ELSE "x"]

\* the strings  whitespace body whitespace  of at most maxLen characters
Strings(maxLen) ==
    {Pad(sh[1]) \o Body(sh[2]) \o Pad(sh[3]) :
        sh \in {x \in (0..MaxPad) \X (0..maxLen) \X (0..MaxPad) :
                    x[1] + x[2] + x[3] <= maxLen}}

Stories == Strings(MinStoryLen + MaxPad)

Targets == Strings(MinTargetLen + MaxPad)

Styles == {"narrative", "screenplay", "satirical", "epic",
           "Narrative", "poem", ""}

\* truth value of "not s" for a string argument
Falsy(s) == s = <<>> \/ s = None

(***************************************************************************)
(* JSON values                                                             *)
(***************************************************************************)
JStr(s) == [t |-> "str", s |-> s]
JNum(n) == [t |-> "num", n |-> n]
JNull == [t |-> "null"]
JArr(a) == [t |-> "arr", a |-> a]
JObj(o) == [t |-> "obj", o |-> o]


\* the text of one completion: message.content of the service's response
Json(v) == [kind |-> "json", val |-> v, chars |-> <<>>]
Garbage == [kind |-> "garbage", val |-> JNull, chars |-> <<"{">>]
Prose(c) == [kind |-> "prose", val |-> JNull, chars |-> c]
NoneContent == [kind |-> "none", val |-> JNull, chars |-> <<>>]

\* json.loads(response)
json_loads(text) ==
    CASE text.kind = "json" -> [exc |-> "none", val |-> text.val]
      [] text.kind = "none" -> [exc |-> "TypeError", val |-> JNull]
      [] OTHER -> [exc |-> "JSONDecodeError", val |-> JNull]

(***************************************************************************)
(* Data models (pydantic)                                                  *)
(***************************************************************************)
CharacterFields == {"name", "archetype", "role", "motivation", "core_trait"}
PlotBeatFields == {"description", "narrative_function", "emotional_note"}
NewCharacterFields == {"new_name", "original_name", "role_in_new_world",
                       "description"}

\* a field annotated str
IsStr(v) == v.t = "str"

\* a field annotated List[str]
IsStrList(v) == v.t = "arr" /\ \A i \in 1..Len(v.a) : IsStr(v.a[i])

\* a JSON object that validates as a model whose fields are all str
IsModel(v, fields) ==
    v.t = "obj" /\ \A f \in fields : f \in DOMAIN v.o /\ IsStr(v.o[f])

\* a field annotated List[M] for such a model M
IsModelList(v, fields) ==
    v.t = "arr" /\ \A i \in 1..Len(v.a) : IsModel(v.a[i], fields)

\* a field annotated dict
IsDict(v) == v.t = "obj"

Present(o, f) == f \in DOMAIN o

\* the fields of the keyword arguments o that StoryEssence rejects
StoryEssenceErrors(o) ==
    {f \in {"title", "logline"} : ~Present(o, f) \/ ~IsStr(o[f])}
    \cup {f \in {"themes"} : ~Present(o, f) \/ ~IsStrList(o[f])}
    \cup {f \in {"characters"} :
            ~Present(o, f) \/ ~IsModelList(o[f], CharacterFields)}
    \cup {f \in {"plot_beats"} :
            ~Present(o, f) \/ ~IsModelList(o[f], PlotBeatFields)}

\* the fields of the keyword arguments o that StoryMap rejects
StoryMapErrors(o) ==
    {f \in {"new_title", "new_logline"} : ~Present(o, f) \/ ~IsStr(o[f])}
    \cup {f \in {"characters"} :
            ~Present(o, f) \/ ~IsModelList(o[f], NewCharacterFields)}
    \cup {f \in {"setting"} : ~Present(o, f) \/ ~IsDict(o[f])}
    \cup {f \in {"plot_outline"} : ~Present(o, f) \/ ~IsStrList(o[f])}

StrListOf(v) == [i \in 1..Len(v.a) |-> v.a[i].s]

ModelListOf(v, fields) ==
    [i \in 1..Len(v.a) |-> [f \in fields |-> v.a[i].o[f].s]]

\* the StoryEssence built from validated keyword arguments: declared fields
\* only, extra keys are ignored
StoryEssence(o) ==
    [title |-> o.title.s,
     logline |-> o.logline.s,
     themes |-> StrListOf(o.themes),
     characters |-> ModelListOf(o.characters, CharacterFields),
     plot_beats |-> ModelListOf(o.plot_beats, PlotBeatFields)]

\* the StoryMap built from validated keyword arguments
StoryMap(o) ==
    [new_title |-> o.new_title.s,
     new_logline |-> o.new_logline.s,
     characters |-> ModelListOf(o.characters, NewCharacterFields),
     setting |-> o.setting.o,
     plot_outline |-> StrListOf(o.plot_outline)]

NoEssence == [title |-> "", logline |-> "", themes |-> <<>>,
              characters |-> <<>>, plot_beats |-> <<>>]

NoStoryMap == [new_title |-> "", new_logline |-> "", characters |-> <<>>,
               setting |-> [unset |-> JNull], plot_outline |-> <<>>]

\* StoryEssence(**json.loads(response)): the exception raised, the fields a
\* ValidationError names, the value built
ParseEssence(text) ==
    LET j == json_loads(text) IN
    CASE j.exc # "none" ->
            [exc |-> j.exc, fields |-> {}, value |-> NoEssence]
      [] j.exc = "none" /\ j.val.t # "obj" ->
            [exc |-> "TypeError", fields |-> {}, value |-> NoEssence]
      [] j.exc = "none" /\ j.val.t = "obj"
            /\ StoryEssenceErrors(j.val.o) # {} ->
            [exc |-> "ValidationError",
             fields |-> StoryEssenceErrors(j.val.o), value |-> NoEssence]
      [] OTHER ->
            [exc |-> "none", fields |-> {}, value |-> StoryEssence(j.val.o)]

\* StoryMap(**json.loads(response))
ParseStoryMap(text) ==
    LET j == json_loads(text) IN
    CASE j.exc # "none" ->
            [exc |-> j.exc, fields |-> {}, value |-> NoStoryMap]
      [] j.exc = "none" /\ j.val.t # "obj" ->
            [exc |-> "TypeError", fields |-> {}, value |-> NoStoryMap]
      [] j.exc = "none" /\ j.val.t = "obj"
            /\ StoryMapErrors(j.val.o) # {} ->
            [exc |-> "ValidationError",
             fields |-> StoryMapErrors(j.val.o), value |-> NoStoryMap]
      [] OTHER ->
            [exc |-> "none", fields |-> {}, value |-> StoryMap(j.val.o)]

\* essence.model_dump_json(): the JSON document of a StoryEssence
model_dump_json(e) ==
    JObj([title |-> JStr(e.title),
          logline |-> JStr(e.logline),
          themes |-> JArr([i \in 1..Len(e.themes) |-> JStr(e.themes[i])]),
          characters |->
              JArr([i \in 1..Len(e.characters) |->
                      JObj([f \in CharacterFields |->
                              JStr(e.characters[i][f])])]),
          plot_beats |->
              JArr([i \in 1..Len(e.plot_beats) |->
                      JObj([f \in PlotBeatFields |->
                              JStr(e.plot_beats[i][f])])])])

(***************************************************************************)
(* What the remote service can answer                                      *)
(***************************************************************************)
\* the ways one attempt can fail: the three error kinds of the service and
\* an envelope whose message content cannot be read
FaultKinds == {"transport", "rate_limit", "service", "envelope"}

CharacterA == [name |-> JStr("Cinderella"), archetype |-> JStr("Underdog"),
               role |-> JStr("Protagonist"), motivation |-> JStr("Freedom"),
               core_trait |-> JStr("Kind")]

CharacterB == [name |-> JStr(""), archetype |-> JStr("Villain"),
               role |-> JStr("Antagonist"), motivation |-> JStr("Status"),
               core_trait |-> JStr("Cruel")]

PlotBeatA == [description |-> JStr("An invitation"),
              narrative_function |-> JStr("Setup"),
              emotional_note |-> JStr("Hopeful")]

EssenceA == [title |-> JStr("Cinderella"), logline |-> JStr("Rags to riches"),
             themes |-> JArr(<<JStr("Hope")>>),
             characters |-> JArr(<<JObj(CharacterA)>>),
             plot_beats |-> JArr(<<JObj(PlotBeatA)>>)]

\* two characters, one with an empty name, no plot beats, an undeclared key
EssenceB == [title |-> JStr("Ashes"), logline |-> JStr("Rags to riches"),
             themes |-> JArr(<<JStr("Hope"), JStr("Envy")>>),
             characters |-> JArr(<<JObj(CharacterB), JObj(CharacterA)>>),
             plot_beats |-> JArr(<<>>),
             notes |-> JNum(1)]

Without(o, f) == [g \in DOMAIN o \ {f} |-> o[g]]

ExtractResponses ==
    <<Json(JObj(EssenceA)),
      Json(JObj(EssenceB)),
      Json(JObj(Without(EssenceA, "plot_beats"))),
      Json(JObj([EssenceA EXCEPT !.title = JNum(7)])),
      Garbage,
      Json(JArr(<<JObj(EssenceA)>>)),
      NoneContent>>

NewCharacterA == [new_name |-> JStr("Ella"), original_name |-> JStr("Cinderella"),
                  role_in_new_world |-> JStr("Cadet"),
                  description |-> JStr("A cadet")]

NewCharacterB == [new_name |-> JStr("Vex"), original_name |-> JStr(""),
                  role_in_new_world |-> JStr("Admiral"),
                  description |-> JStr("An admiral")]

StoryMapA == [new_title |-> JStr("Star Ella"), new_logline |-> JStr("A cadet"),
              characters |-> JArr(<<JObj(NewCharacterA)>>),
              setting |-> JObj([location |-> JStr("Orbit")]),
              plot_outline |-> JArr(<<JStr("Scene one")>>)]

StoryMapB == [new_title |-> JStr("Vex"), new_logline |-> JStr("An admiral"),
              characters |-> JArr(<<JObj(NewCharacterB), JObj(NewCharacterA)>>),
              setting |-> JObj([location |-> JStr("Fleet"),
                                rules |-> JNum(3)]),
              plot_outline |-> JArr(<<JStr("Scene two"), JStr("Scene one")>>)]

MapResponses ==
    <<Json(JObj(StoryMapA)),
      Json(JObj(StoryMapB)),
      Json(JObj(Without(StoryMapA, "new_title"))),
      Garbage,
      Json(JNum(7)),
      NoneContent>>

GenerateResponses ==
    <<Prose(<<" ", "a", " ", "b", "\n">>),
      Prose(<<>>),
      NoneContent>>

\* the texts the service can return to a stage
Responses(stage) ==
    CASE stage = "Extracting" -> ExtractResponses
      [] stage = "Mapping" -> MapResponses
      [] OTHER -> GenerateResponses

(***************************************************************************)
(* Prompts                                                                 *)
(***************************************************************************)
NoPrompt == [template |-> <<>>, source_story |-> <<>>, contract_json |-> JNull,
             target_context |-> <<>>, new_title |-> "",
             characters_list |-> <<>>, plot_outline |-> <<>>]

\* EXTRACTION_PROMPT.format(source_story = story)
ExtractionPrompt(s) ==
    [NoPrompt EXCEPT !.template = <<"EXTRACTION_PROMPT">>,
                     !.source_story = s]

\* mutant: the mapping prompt is built before there is an essence
MappingPromptNoEssence(e, t) ==
    [NoPrompt EXCEPT !.template = <<"MAPPING_PROMPT">>,
                     !.contract_json = model_dump_json(NoEssence),
                     !.target_context = t]

\* MAPPING_PROMPT.format(contract_json = ..., target_context = target)
MappingPrompt(e, t) ==
    [NoPrompt EXCEPT !.template = <<"MAPPING_PROMPT">>,
                     !.contract_json = model_dump_json(e),
                     !.target_context = t]

\* sep.join(parts), each part a sequence of pieces of text
RECURSIVE join(_, _)
join(sep, parts) ==
    IF parts = <<>> THEN <<>>
    ELSE IF Len(parts) = 1 THEN parts[1]
    ELSE parts[1] \o <<sep>> \o join(sep, Tail(parts))

\* mutant: the characters are listed last to first
CharactersListReversed(m) ==
    join("\n", [i \in 1..Len(m.characters) |->
                  <<"- ", m.characters[Len(m.characters) + 1 - i].new_name,
                    ": ",
                    m.characters[Len(m.characters) + 1 - i].description>>])

\* "\n".join([f"- {c.new_name}: {c.description}" for c in characters])
CharactersList(m) ==
    join("\n", [i \in 1..Len(m.characters) |->
                  <<"- ", m.characters[i].new_name, ": ",
                    m.characters[i].description>>])

\* "\n".join(story_map.plot_outline)
PlotOutline(m) ==
    join("\n", [i \in 1..Len(m.plot_outline) |-> <<m.plot_outline[i]>>])

\* GENERATION_PROMPTS[style].format(...)
GenerationPrompt(m, t, st) ==
    [NoPrompt EXCEPT !.template = <<"GENERATION_PROMPTS", st>>,
                     !.new_title = m.new_title,
                     !.target_context = t,
                     !.characters_list = CharactersList(m),
                     !.plot_outline = PlotOutline(m)]

(***************************************************************************)
(* Exceptions and results                                                  *)
(***************************************************************************)
Error(type, msg, cause, fields, styles) ==
    [type |-> type, msg |-> msg, cause |-> cause, fields |-> fields,
     styles |-> styles]

NoError == Error("none", "", "", {}, <<>>)

TransformationError(msg, cause, fields, styles) ==
    Error("TransformationError", msg, cause, fields, styles)

NoResponse == [kind |-> "unset", val |-> JNull, chars |-> <<>>]

NoResult == [returned |-> FALSE, story |-> NoResponse, contract |-> NoEssence,
             map |-> NoStoryMap, style |-> ""]

(***************************************************************************)
(* Preconditions of the stages                                             *)
(***************************************************************************)
\* mutant: the length is taken without stripping
StoryTooShortRaw(s) == Falsy(s) \/ Len(s) < MinStoryLen

\* not story or len(story.strip()) < 50
StoryTooShort(s) == Falsy(s) \/ Len(strip(s)) < MinStoryLen

\* mutant: only the empty target is refused
TargetTooShortEmpty(t) == Falsy(t)

\* not target or len(target.strip()) < 3
TargetTooShort(t) == Falsy(t) \/ Len(strip(t)) < MinTargetLen

\* mutant: styles are compared without regard to case
InvalidStyleAnyCase(st) ==
    \A i \in 1..Len(valid_styles) :
        valid_styles[i] # st /\ <<valid_styles[i], st>> # <<"narrative", "Narrative">>

\* style not in valid_styles
InvalidStyle(st) == \A i \in 1..Len(valid_styles) : valid_styles[i] # st

\* mutants of the retry test: one attempt too few, one too many
ShouldRetryEarlyStop(n) == n < MAX_RETRIES - 2

ShouldRetryOnceMore(n) == n < MAX_RETRIES

\* attempt < self.MAX_RETRIES - 1
ShouldRetry(n) == n < MAX_RETRIES - 1

(***************************************************************************)
(* The command line (src/run.py)                                           *)
(***************************************************************************)
Keyword == <<"C", "i", "n", "d", "e", "r", "e", "l", "l", "a">>

CinderellaLen == 822

DEFAULT_CINDERELLA_STORY == <<"\n">> \o Body(CinderellaLen) \o <<"\n">>

\* the one file of the file system, and its text
FilePath == <<"f">>
FileText == Body(MinStoryLen)

\* args.api_key or os.environ.get("GROQ_API_KEY") or ...get("groq_api_key")
get_api_key(a) ==
    IF a.api_key # "" THEN a.api_key
    ELSE IF a.env_upper # "" THEN a.env_upper
    ELSE a.env_lower

\* the story text, or no text when the source is rejected
load_source_story(source_arg) ==
    IF source_arg = FilePath THEN [ok |-> TRUE, text |-> FileText]
    ELSE IF lower(source_arg) = lower(Keyword)
         THEN [ok |-> TRUE, text |-> DEFAULT_CINDERELLA_STORY]
    ELSE IF Len(source_arg) > MinRawLen THEN [ok |-> TRUE, text |-> source_arg]
    ELSE [ok |-> FALSE, text |-> <<>>]

\* the menu of choose_style
STYLES == <<"narrative", "screenplay", "satirical", "epic">>

\* the style given on the command line, or the one picked at the menu
choose_style(style_arg, choice) ==
    IF style_arg # "" /\ style_arg # "choose" THEN style_arg
    ELSE STYLES[choice]

StyleArgs == {"narrative", "screenplay", "satirical", "epic", "choose"}

(***************************************************************************)
(* Inputs                                                                  *)
(***************************************************************************)
RefStory == Body(MinStoryLen)
RefTarget == Body(MinTargetLen)

\* the calls of transform: every story with one target and style, and one
\* story with every target and style
Inputs ==
    ((Stories \cup {None}) \X {RefTarget} \X {"narrative"})
    \cup ({RefStory} \X (Targets \cup {None}) \X Styles)

Sources == Strings(MinRawLen + MaxPad) \cup {Keyword, lower(Keyword), FilePath}

NoArgs == [api_key |-> "", env_upper |-> "", env_lower |-> "",
           source |-> <<>>, target |-> <<>>, style |-> "", choice |-> 1]

\* the command lines: every source with one key, target and style, and the
\* default source with every key, style and menu choice
CommandLines ==
    {[NoArgs EXCEPT !.api_key = "k", !.source = src, !.target = RefTarget,
                    !.style = "epic"] : src \in Sources}
    \cup {[api_key |-> k[1], env_upper |-> k[2], env_lower |-> k[3],
           source |-> Keyword, target |-> t, style |-> st, choice |-> c] :
            k \in {"", "k"} \X {"", "u"} \X {"", "l"},
            t \in {RefTarget, Body(MinTargetLen - 1)},
            st \in StyleArgs, c \in 1..Len(STYLES)}

(***************************************************************************)
(* State                                                                   *)
(***************************************************************************)
VARIABLES
    cli,         \* where the command line is: none, pipeline, saved, exit
    exit_msg,    \* what the command line printed before sys.exit(1)
    args,        \* the command line and its environment
    story,       \* transform's arguments
    target,
    style,
    pc,          \* Idle, Extracting, Mapping, Generating, Done, Failed
    at,          \* inside a stage: pre (its precondition), call (a remote
                 \* attempt is due), ret (_call_llm has returned)
    attempt,     \* the loop variable of _call_llm
    prompt,      \* _call_llm's arguments
    json_mode,
    response,    \* what _call_llm returned
    essence,     \* transform's locals
    story_map,
    result,      \* what transform returned
    err,         \* the exception that left transform
    log,         \* the remote calls and the sleeps observed, in order
    stub,        \* the answers a deterministic adapter has given so far
    run1         \* what an earlier run with the same arguments came to

vars == <<cli, exit_msg, args, story, target, style, pc, at, attempt, prompt,
          json_mode, response, essence, story_map, result, err, log, stub,
          run1>>

\* no earlier run
NoRun == [pc |-> "Idle", result |-> NoResult, err |-> NoError, log |-> <<>>]

Init ==
    /\ cli = "none"
    /\ exit_msg = ""
    /\ args = NoArgs
    /\ story = <<>>
    /\ target = <<>>
    /\ style = ""
    /\ pc = "Idle"
    /\ at = "-"
    /\ attempt = 0
    /\ prompt = NoPrompt
    /\ json_mode = FALSE
    /\ response = NoResponse
    /\ essence = NoEssence
    /\ story_map = NoStoryMap
    /\ result = NoResult
    /\ err = NoError
    /\ log = <<>>
    /\ stub = {}
    /\ run1 = NoRun

(***************************************************************************)
(* Observations                                                            *)
(***************************************************************************)
\* one remote call: client.chat.completions.create(...)
CallEvent(ok, text) ==
    [ev |-> "call", stage |-> pc, json_mode |-> json_mode, prompt |-> prompt,
     ok |-> ok, resp |-> text, delay |-> 0]

\* time.sleep(self.RETRY_DELAY)
SleepEvent ==
    [ev |-> "sleep", stage |-> pc, json_mode |-> json_mode,
     prompt |-> NoPrompt, ok |-> TRUE, resp |-> NoResponse,
     delay |-> RETRY_DELAY]

(***************************************************************************)
(* Leaving transform                                                       *)
(***************************************************************************)
\* mutant: a failed run hands back what the earlier stages produced
RaisedResultPartial(e, m) ==
    [returned |-> TRUE, story |-> NoResponse, contract |-> e, map |-> m,
     style |-> ""]

\* what transform yields when a stage raises: the exception propagates and no
\* value is returned
RaisedResult(e, m) == NoResult

\* mutant: the story text is tidied before it is returned
ReturnedResultStripped(text, e, m, st) ==
    [returned |-> TRUE, story |-> [text EXCEPT !.chars = strip(text.chars)],
     contract |-> e, map |-> m, style |-> st]

\* what transform returns after the three stages
ReturnedResult(text, e, m, st) ==
    [returned |-> TRUE, story |-> text, contract |-> e, map |-> m,
     style |-> st]

\* an exception leaves the running stage and transform; run.py reports it
Raise(e) ==
    /\ pc' = "Failed"
    /\ at' = "-"
    /\ err' = e
    /\ result' = RaisedResult(essence, story_map)
    /\ cli' = IF cli = "pipeline" THEN "exit" ELSE cli
    /\ exit_msg' = IF cli = "pipeline" THEN "Pipeline failed" ELSE exit_msg

\* mutant: the json_mode argument is ignored and JSON is always requested
CallJsonAlways(p, j) ==
    /\ at' = "call"
    /\ attempt' = 0
    /\ prompt' = p
    /\ json_mode' = TRUE

\* _call_llm(prompt, json_mode) is entered
\* mutant: the client keeps the conversation, so a prompt sent after earlier
\* exchanges carries them
CallWithHistory(p, j) ==
    /\ at' = "call"
    /\ attempt' = 0
    /\ prompt' = IF stub = {} THEN p
                 ELSE [p EXCEPT !.template = <<"history">> \o p.template]
    /\ json_mode' = j

Call(p, j) ==
    /\ at' = "call"
    /\ attempt' = 0
    /\ prompt' = p
    /\ json_mode' = j

\* raise TransformationError(f"API call failed after ... attempts: {e}")
ExhaustedError(kind) ==
    TransformationError("API call failed", kind, {}, <<>>)

\* raise TransformationError(f"Failed to parse ... response: {e}"), or the
\* exception the except clause does not catch
ParseError(msg, p) ==
    IF p.exc \in {"JSONDecodeError", "ValidationError"}
    THEN TransformationError(msg, p.exc, p.fields, <<>>)
    ELSE Error(p.exc, "", "", {}, <<>>)

(***************************************************************************)
(* StoryTransformer.transform, cut at the remote calls                     *)
(***************************************************************************)
\* mutant: transform validates the target and the style before any stage
transform_validate_first(s, t, st) ==
    /\ pc = "Idle"
    /\ cli = "none"
    /\ story' = s
    /\ target' = t
    /\ style' = st
    /\ IF TargetTooShort(t)
       THEN Raise(TransformationError("Target setting is required",
                                      "", {}, <<>>))
       ELSE IF InvalidStyle(st)
       THEN Raise(TransformationError("Invalid style. Choose from",
                                      "", {}, valid_styles))
       ELSE /\ pc' = "Extracting"
            /\ at' = "pre"
            /\ UNCHANGED <<cli, exit_msg, result, err>>
    /\ UNCHANGED <<args, attempt, prompt, json_mode, response, essence,
                   story_map, log>>
    /\ UNCHANGED <<stub, run1>>

\* transform(story, target, style) is called on a transformer
transform(s, t, st) ==
    /\ pc = "Idle"
    /\ cli = "none"
    /\ story' = s
    /\ target' = t
    /\ style' = st
    /\ pc' = "Extracting"
    /\ at' = "pre"
    /\ UNCHANGED <<cli, exit_msg, args, attempt, prompt, json_mode, response,
                   essence, story_map, result, err, log>>
    /\ UNCHANGED <<stub, run1>>

\* extract, up to its remote call
extract_check ==
    /\ pc = "Extracting"
    /\ at = "pre"
    /\ IF StoryTooShort(story)
       THEN /\ Raise(TransformationError("Story text is too short or empty",
                                         "", {}, <<>>))
            /\ UNCHANGED <<attempt, prompt, json_mode>>
       ELSE /\ Call(ExtractionPrompt(story), TRUE)
            /\ UNCHANGED <<pc, err, result, cli, exit_msg>>
    /\ UNCHANGED <<args, story, target, style, response, essence, story_map,
                   log>>
    /\ UNCHANGED <<stub, run1>>

\* client.chat.completions.create(...) returns: line 111 hands its content back
create_returns(text) ==
    /\ at = "call"
    /\ log' = Append(log, CallEvent(TRUE, text))
    /\ response' = text
    /\ at' = "ret"
    /\ UNCHANGED <<cli, exit_msg, args, story, target, style, pc, attempt,
                   prompt, json_mode, essence, story_map, result, err>>

\* one attempt of _call_llm returns the content of the completion
call_llm_return(text) ==
    /\ create_returns(text)
    /\ UNCHANGED <<stub, run1>>

\* mutant: the sleep comes before the test of the attempt number, so the
\* last failure sleeps too
call_llm_except_sleep_first(kind) ==
    /\ at = "call"
    /\ log' = log \o <<CallEvent(FALSE, NoResponse), SleepEvent>>
    /\ IF ShouldRetry(attempt)
       THEN /\ attempt' = attempt + 1
            /\ UNCHANGED <<pc, at, err, result, cli, exit_msg>>
       ELSE /\ Raise(ExhaustedError(kind))
            /\ UNCHANGED attempt
    /\ UNCHANGED <<args, story, target, style, prompt, json_mode, response,
                   essence, story_map>>
    /\ UNCHANGED <<stub, run1>>

\* mutant: a completion whose content cannot be read is not tried again
call_llm_except_envelope_fatal(kind) ==
    /\ at = "call"
    /\ IF ShouldRetry(attempt) /\ kind # "envelope"
       THEN /\ log' = log \o <<CallEvent(FALSE, NoResponse), SleepEvent>>
            /\ attempt' = attempt + 1
            /\ UNCHANGED <<pc, at, err, result, cli, exit_msg>>
       ELSE /\ log' = Append(log, CallEvent(FALSE, NoResponse))
            /\ Raise(ExhaustedError(kind))
            /\ UNCHANGED attempt
    /\ UNCHANGED <<args, story, target, style, prompt, json_mode, response,
                   essence, story_map>>
    /\ UNCHANGED <<stub, run1>>

\* mutant: the last failure leaves the loop without raising, and _call_llm
\* returns None
call_llm_except_fall_through(kind) ==
    /\ at = "call"
    /\ IF ShouldRetry(attempt)
       THEN /\ log' = log \o <<CallEvent(FALSE, NoResponse), SleepEvent>>
            /\ attempt' = attempt + 1
            /\ UNCHANGED <<at, response>>
       ELSE /\ log' = Append(log, CallEvent(FALSE, NoResponse))
            /\ at' = "ret"
            /\ response' = NoneContent
            /\ UNCHANGED attempt
    /\ UNCHANGED <<pc, err, result, cli, exit_msg, args, story, target, style,
                   prompt, json_mode, essence, story_map>>
    /\ UNCHANGED <<stub, run1>>

\* client.chat.completions.create(...) raises: the except clause, lines 112-114
create_raises(kind) ==
    /\ at = "call"
    /\ IF ShouldRetry(attempt)
       THEN /\ log' = log \o <<CallEvent(FALSE, NoResponse), SleepEvent>>
            /\ attempt' = attempt + 1
            /\ UNCHANGED <<pc, at, err, result, cli, exit_msg>>
       ELSE /\ log' = Append(log, CallEvent(FALSE, NoResponse))
            /\ Raise(ExhaustedError(kind))
            /\ UNCHANGED attempt
    /\ UNCHANGED <<args, story, target, style, prompt, json_mode, response,
                   essence, story_map>>

\* one attempt of _call_llm raises: sleep and go round the loop, or give up
call_llm_except(kind) ==
    /\ create_raises(kind)
    /\ UNCHANGED <<stub, run1>>

\* mutant: a response that does not validate is asked for again
extract_validate_again ==
    /\ pc = "Extracting"
    /\ at = "ret"
    /\ LET p == ParseEssence(response) IN
       IF p.exc = "none"
       THEN /\ essence' = p.value
            /\ pc' = "Mapping"
            /\ at' = "pre"
            /\ UNCHANGED <<err, result, cli, exit_msg, attempt>>
       ELSE IF ShouldRetry(attempt)
       THEN /\ at' = "call"
            /\ attempt' = attempt + 1
            /\ UNCHANGED <<pc, essence, err, result, cli, exit_msg>>
       ELSE /\ Raise(ParseError("Failed to parse extraction response", p))
            /\ UNCHANGED <<essence, attempt>>
    /\ UNCHANGED <<args, story, target, style, prompt, json_mode,
                   response, story_map, log>>
    /\ UNCHANGED <<stub, run1>>

\* extract, after its remote call
extract_validate ==
    /\ pc = "Extracting"
    /\ at = "ret"
    /\ LET p == ParseEssence(response) IN
       IF p.exc = "none"
       THEN /\ essence' = p.value
            /\ pc' = "Mapping"
            /\ at' = "pre"
            /\ UNCHANGED <<err, result, cli, exit_msg>>
       ELSE /\ Raise(ParseError("Failed to parse extraction response", p))
            /\ UNCHANGED essence
    /\ UNCHANGED <<args, story, target, style, attempt, prompt, json_mode,
                   response, story_map, log>>
    /\ UNCHANGED <<stub, run1>>

\* map_to_setting, up to its remote call
map_to_setting_check ==
    /\ pc = "Mapping"
    /\ at = "pre"
    /\ IF TargetTooShort(target)
       THEN /\ Raise(TransformationError("Target setting is required",
                                         "", {}, <<>>))
            /\ UNCHANGED <<attempt, prompt, json_mode>>
       ELSE /\ Call(MappingPrompt(essence, target), TRUE)
            /\ UNCHANGED <<pc, err, result, cli, exit_msg>>
    /\ UNCHANGED <<args, story, target, style, response, essence, story_map,
                   log>>
    /\ UNCHANGED <<stub, run1>>

\* mutant: when the map does not validate the story is extracted again
map_to_setting_validate_backtrack ==
    /\ pc = "Mapping"
    /\ at = "ret"
    /\ LET p == ParseStoryMap(response) IN
       IF p.exc = "none"
       THEN /\ story_map' = p.value
            /\ pc' = "Generating"
            /\ at' = "pre"
            /\ UNCHANGED <<err, result, cli, exit_msg>>
       ELSE IF Len(log) < MAX_RETRIES
       THEN /\ pc' = "Extracting"
            /\ at' = "pre"
            /\ UNCHANGED <<story_map, err, result, cli, exit_msg>>
       ELSE /\ Raise(ParseError("Failed to parse mapping response", p))
            /\ UNCHANGED story_map
    /\ UNCHANGED <<args, story, target, style, attempt, prompt, json_mode,
                   response, essence, log>>
    /\ UNCHANGED <<stub, run1>>

\* map_to_setting, after its remote call
map_to_setting_validate ==
    /\ pc = "Mapping"
    /\ at = "ret"
    /\ LET p == ParseStoryMap(response) IN
       IF p.exc = "none"
       THEN /\ story_map' = p.value
            /\ pc' = "Generating"
            /\ at' = "pre"
            /\ UNCHANGED <<err, result, cli, exit_msg>>
       ELSE /\ Raise(ParseError("Failed to parse mapping response", p))
            /\ UNCHANGED story_map
    /\ UNCHANGED <<args, story, target, style, attempt, prompt, json_mode,
                   response, essence, log>>
    /\ UNCHANGED <<stub, run1>>

\* generate, up to its remote call
generate_check ==
    /\ pc = "Generating"
    /\ at = "pre"
    /\ IF InvalidStyle(style)
       THEN /\ Raise(TransformationError("Invalid style. Choose from",
                                         "", {}, valid_styles))
            /\ UNCHANGED <<attempt, prompt, json_mode>>
       ELSE /\ Call(GenerationPrompt(story_map, target, style), FALSE)
            /\ UNCHANGED <<pc, err, result, cli, exit_msg>>
    /\ UNCHANGED <<args, story, target, style, response, essence, story_map,
                   log>>
    /\ UNCHANGED <<stub, run1>>

\* generate, after its remote call, and the return of transform
generate_return ==
    /\ pc = "Generating"
    /\ at = "ret"
    /\ IF response.kind = "none"
       THEN Raise(Error("AttributeError", "", "", {}, <<>>))
       ELSE /\ pc' = "Done"
            /\ at' = "-"
            /\ result' = ReturnedResult(response, essence, story_map, style)
            /\ cli' = IF cli = "pipeline" THEN "saved" ELSE cli
            /\ UNCHANGED <<err, exit_msg>>
    /\ UNCHANGED <<args, story, target, style, attempt, prompt, json_mode,
                   response, essence, story_map, log>>
    /\ UNCHANGED <<stub, run1>>

(***************************************************************************)
(* main of run.py                                                          *)
(***************************************************************************)
Exit(msg, e) ==
    /\ cli' = "exit"
    /\ exit_msg' = msg
    /\ err' = e
    /\ UNCHANGED <<story, target, style, pc, at>>

main(a) ==
    /\ pc = "Idle"
    /\ cli = "none"
    /\ args' = a
    /\ LET src == load_source_story(a.source) IN
       IF get_api_key(a) = "" THEN Exit("GROQ_API_KEY not found", NoError)
       ELSE IF ~src.ok THEN Exit("not a valid file or story text", NoError)
       ELSE IF EntryPoint \in Methods
       THEN /\ cli' = "pipeline"
            /\ story' = src.text
            /\ target' = a.target
            /\ style' = choose_style(a.style, a.choice)
            /\ pc' = "Extracting"
            /\ at' = "pre"
            /\ UNCHANGED <<exit_msg, err>>
       ELSE Exit("Pipeline failed", Error("AttributeError", EntryPoint, "",
                                          {}, <<>>))
    /\ UNCHANGED <<attempt, prompt, json_mode, response, essence, story_map,
                   result, log>>
    /\ UNCHANGED <<stub, run1>>

Next ==
    \/ \E i \in Inputs : transform(i[1], i[2], i[3])
    \/ \E a \in CommandLines : main(a)
    \/ extract_check
    \/ \E i \in 1..Len(Responses(pc)) : call_llm_return(Responses(pc)[i])
    \/ \E kind \in FaultKinds : call_llm_except(kind)
    \/ extract_validate
    \/ map_to_setting_check
    \/ map_to_setting_validate
    \/ generate_check
    \/ generate_return

Spec == Init /\ [][Next]_vars

(***************************************************************************)
(* Two runs of transform with the same arguments, against an adapter that  *)
(* is a deterministic function of the prompt                               *)
(***************************************************************************)
\* what the adapter has answered to prompt p so far
Answers(p) == {e \in stub : e.prompt = p}

\* the adapter answers the prompt with a completion, as it did before
stub_returns(text) ==
    /\ \A e \in Answers(prompt) : e.ok /\ e.resp = text
    /\ create_returns(text)
    /\ stub' = stub \cup {[prompt |-> prompt, ok |-> TRUE, resp |-> text,
                            kind |-> "-"]}
    /\ UNCHANGED run1

\* the adapter answers the prompt with a fault, as it did before
stub_raises(kind) ==
    /\ \A e \in Answers(prompt) : ~ e.ok /\ e.kind = kind
    /\ create_raises(kind)
    /\ stub' = stub \cup {[prompt |-> prompt, ok |-> FALSE,
                            resp |-> NoResponse, kind |-> kind]}
    /\ UNCHANGED run1

\* transform(story, target, style) is called a second time on the same
\* transformer with the same arguments: its locals are fresh
transform_again ==
    /\ pc \in {"Done", "Failed"}
    /\ cli = "none"
    /\ run1.pc = "Idle"
    /\ run1' = [pc |-> pc, result |-> result, err |-> err, log |-> log]
    /\ pc' = "Extracting"
    /\ at' = "pre"
    /\ attempt' = 0
    /\ prompt' = NoPrompt
    /\ json_mode' = FALSE
    /\ response' = NoResponse
    /\ essence' = NoEssence
    /\ story_map' = NoStoryMap
    /\ result' = NoResult
    /\ err' = NoError
    /\ log' = <<>>
    /\ UNCHANGED <<cli, exit_msg, args, story, target, style, stub>>

TwiceNext ==
    \/ \E i \in Inputs : transform(i[1], i[2], i[3])
    \/ extract_check
    \/ \E i \in 1..Len(Responses(pc)) : stub_returns(Responses(pc)[i])
    \/ \E kind \in FaultKinds : stub_raises(kind)
    \/ extract_validate
    \/ map_to_setting_check
    \/ map_to_setting_validate
    \/ generate_check
    \/ generate_return
    \/ transform_again

TwiceSpec == Init /\ [][TwiceNext]_vars

(***************************************************************************)
(* Reading the observations                                                *)
(***************************************************************************)
WorkingStages == {"Extracting", "Mapping", "Generating"}

IsCall(e) == e.ev = "call"

\* the remote calls observed for one stage, that is for its one invocation
\* of _call_llm
CallsOf(stage) == SelectSeq(log, LAMBDA e : IsCall(e) /\ e.stage = stage)

AllFailed(c) == \A i \in 1..Len(c) : ~c[i].ok

\* the length of s once its leading and trailing whitespace is removed: the
\* distance from its first to its last character that is not whitespace
TrimmedLen(s) ==
    LET solid == {i \in 1..Len(s) : s[i] \notin {" ", "\n", "\t"}} IN
    IF solid = {} THEN 0
    ELSE (CHOOSE j \in solid : \A k \in solid : k <= j)
         - (CHOOSE i \in solid : \A k \in solid : i <= k) + 1

(***************************************************************************)
(* C1  Adapter retry on transient failure.  In every invocation of         *)
(* _call_llm: while fewer than MAX_RETRIES attempts have been made and all *)
(* of them failed, the invocation is still running and about to make the   *)
(* next attempt; a successful attempt is the last remote call of the       *)
(* invocation, every call before it failed, and the invocation returns its *)
(* response, so after k failures and a success exactly k + 1 calls are     *)
(* observed; the adapter error ends a run only right after a failed call.  *)
(***************************************************************************)
C1_RetryUntilSuccess ==
    /\ \A stage \in WorkingStages :
        LET c == CallsOf(stage)
            n == Len(c)
        IN  /\ (n > 0 /\ n < MAX_RETRIES /\ AllFailed(c))
                 => (pc = stage /\ at = "call" /\ attempt = n)
            /\ \A i \in 1..n :
                 c[i].ok =>
                    /\ i = n
                    /\ n <= MAX_RETRIES
                    /\ AllFailed(SubSeq(c, 1, n - 1))
                    /\ ~(pc = stage /\ at = "call")
                    /\ (pc = stage /\ at = "ret")
                          => (response = c[n].resp /\ attempt = n - 1)
    /\ (pc = "Failed" /\ err.msg = "API call failed")
          => (log # <<>> /\ IsCall(log[Len(log)]) /\ ~log[Len(log)].ok)

\* faults on the first two attempts of Extract's call, success on the third,
\* and the stage has succeeded
C1_Witness ==
    /\ pc = "Mapping"
    /\ Len(CallsOf("Extracting")) = MAX_RETRIES
    /\ ~CallsOf("Extracting")[1].ok
    /\ ~CallsOf("Extracting")[2].ok
    /\ CallsOf("Extracting")[3].ok
    /\ essence.title = "Cinderella"

(***************************************************************************)
(* C2  Adapter exhaustion.  No invocation of _call_llm is ever observed to *)
(* make more than MAX_RETRIES remote calls; a run has failed with the      *)
(* terminal adapter error exactly when some invocation made MAX_RETRIES    *)
(* calls that all failed, those are then the last calls of the run, and    *)
(* the error carries the fault of the last attempt.                        *)
(***************************************************************************)
C2_Exhausted ==
    /\ \A stage \in WorkingStages : Len(CallsOf(stage)) <= MAX_RETRIES
    /\ (\E stage \in WorkingStages :
            Len(CallsOf(stage)) = MAX_RETRIES /\ AllFailed(CallsOf(stage)))
        <=> (pc = "Failed" /\ err.type = "TransformationError"
                /\ err.msg = "API call failed")

C2_LastError ==
    \A kind \in FaultKinds :
        (call_llm_except(kind) /\ pc' = "Failed") =>
            /\ err'.type = "TransformationError"
            /\ err'.msg = "API call failed"
            /\ err'.cause = kind
            /\ Len(log') = Len(log) + 1
            /\ Len(CallsOf(pc)) = MAX_RETRIES - 1

C2_AdapterExhaustion == [](C2_Exhausted) /\ [][C2_LastError]_vars

\* Map's call has failed three times and the run has failed with it
C2_Witness ==
    /\ pc = "Failed"
    /\ err.msg = "API call failed"
    /\ err.cause = "rate_limit"
    /\ Len(CallsOf("Mapping")) = MAX_RETRIES
    /\ AllFailed(CallsOf("Mapping"))
    /\ CallsOf("Generating") = <<>>

(***************************************************************************)
(* C3  Validation failures are never retried.  A response to Extract or    *)
(* Map that is not JSON, or is a JSON object with a required field missing *)
(* or of the wrong type, is the last remote call of the run: the stage     *)
(* has either just received it or has failed with the parse error, which   *)
(* names the offending fields (plot_beats for an Essence without it), and  *)
(* the invocation made no call after the one that returned.                *)
(***************************************************************************)
\* the required fields of a stage's shape that the object o lacks or
\* mistypes; every declared field is required
Rejected(stage, o) ==
    IF stage = "Extracting" THEN StoryEssenceErrors(o) ELSE StoryMapErrors(o)

MalformedJson(text) == text.kind \in {"garbage", "prose"}

SchemaMismatch(stage, text) ==
    /\ text.kind = "json"
    /\ text.val.t = "obj"
    /\ Rejected(stage, text.val.o) # {}

ParseMessage(stage) ==
    IF stage = "Extracting" THEN "Failed to parse extraction response"
    ELSE "Failed to parse mapping response"

C3_ValidationNotRetried ==
    \A i \in 1..Len(log) :
        LET e == log[i] IN
        (IsCall(e) /\ e.ok /\ e.stage \in {"Extracting", "Mapping"}
            /\ (MalformedJson(e.resp) \/ SchemaMismatch(e.stage, e.resp)))
        => /\ i = Len(log)
           /\ \/ (pc = e.stage /\ at = "ret" /\ response = e.resp)
              \/ /\ pc = "Failed"
                 /\ ~result.returned
                 /\ err.type = "TransformationError"
                 /\ err.msg = ParseMessage(e.stage)
                 /\ MalformedJson(e.resp) =>
                        (err.cause = "JSONDecodeError" /\ err.fields = {})
                 /\ SchemaMismatch(e.stage, e.resp) =>
                        /\ err.cause = "ValidationError"
                        /\ err.fields = Rejected(e.stage, e.resp.val.o)
                 /\ e.resp = Json(JObj(Without(EssenceA, "plot_beats")))
                        => err.fields = {"plot_beats"}
                 /\ e.resp = Json(JObj(Without(StoryMapA, "new_title")))
                        => err.fields = {"new_title"}

\* Extract got an Essence without plot_beats from its first attempt and failed
C3_Witness ==
    /\ pc = "Failed"
    /\ Len(log) = 1
    /\ log[1].resp = Json(JObj(Without(EssenceA, "plot_beats")))
    /\ err.fields = {"plot_beats"}

(***************************************************************************)
(* C4  Extract fails fast.  Once extract has tested its precondition, a    *)
(* story of trimmed length below 50 (the empty story and None included)    *)
(* has failed the run with the too-short error and no remote call was      *)
(* ever made, and a story of trimmed length 50 or more has had the adapter *)
(* called with the extraction prompt that embeds it.                       *)
(***************************************************************************)
ExtractEntered == pc # "Idle" /\ ~(pc = "Extracting" /\ at = "pre")

C4_ExtractFailsFast ==
    ExtractEntered =>
        IF story = None \/ TrimmedLen(story) < 50
        THEN /\ pc = "Failed"
             /\ err = TransformationError("Story text is too short or empty",
                                          "", {}, <<>>)
             /\ log = <<>>
             /\ ~result.returned
        ELSE /\ err.msg # "Story text is too short or empty"
             /\ (pc = "Extracting" /\ at = "call" /\ log = <<>>) =>
                    /\ prompt.template = <<"EXTRACTION_PROMPT">>
                    /\ prompt.source_story = story
                    /\ json_mode
             /\ (pc = "Failed" /\ log = <<>>) => FALSE

\* a story of 51 characters, 49 without the whitespace around them, failed
C4_Witness ==
    /\ pc = "Failed"
    /\ Len(story) > 50
    /\ TrimmedLen(story) = 49
    /\ log = <<>>

(***************************************************************************)
(* C5  Map fails fast.  Once map_to_setting has tested its precondition,   *)
(* a target of trimmed length below 3 (the empty target and None included) *)
(* has failed the run with the target error and no remote call was made    *)
(* for Map, and a target of trimmed length 3 or more has had the adapter   *)
(* called with the mapping prompt.                                         *)
(***************************************************************************)
MapEntered ==
    /\ essence # NoEssence
    /\ ~(pc = "Mapping" /\ at = "pre")

C5_MapFailsFast ==
    MapEntered =>
        IF target = None \/ TrimmedLen(target) < 3
        THEN /\ pc = "Failed"
             /\ err = TransformationError("Target setting is required",
                                          "", {}, <<>>)
             /\ CallsOf("Mapping") = <<>>
             /\ CallsOf("Generating") = <<>>
             /\ ~result.returned
        ELSE /\ err.msg # "Target setting is required"
             /\ (pc = "Mapping" /\ at = "call" /\ attempt = 0) =>
                    /\ prompt.template = <<"MAPPING_PROMPT">>
                    /\ prompt.target_context = target
                    /\ json_mode
             /\ (pc = "Failed") => CallsOf("Mapping") # <<>>

\* a target of 3 characters, 2 without the whitespace, failed after Extract
C5_Witness ==
    /\ pc = "Failed"
    /\ Len(target) >= 3
    /\ TrimmedLen(target) = 2
    /\ CallsOf("Extracting") # <<>>
    /\ CallsOf("Mapping") = <<>>

(***************************************************************************)
(* C6  Generate rejects unknown styles.  Once generate has tested its      *)
(* precondition, a style other than narrative, screenplay, satirical and   *)
(* epic has failed the run with the invalid-style error that lists these   *)
(* four, and no remote call was made for Generate: no prompt of another    *)
(* style is ever sent in its place.                                        *)
(***************************************************************************)
GenerateEntered ==
    /\ story_map # NoStoryMap
    /\ ~(pc = "Generating" /\ at = "pre")

C6_UnknownStyleRejected ==
    (GenerateEntered
        /\ style \notin {"narrative", "screenplay", "satirical", "epic"})
    => /\ pc = "Failed"
       /\ err.type = "TransformationError"
       /\ err.msg = "Invalid style. Choose from"
       /\ err.styles = <<"narrative", "screenplay", "satirical", "epic">>
       /\ CallsOf("Generating") = <<>>
       /\ ~result.returned

\* the style Narrative, with a capital, was rejected after Map succeeded
C6_Witness ==
    /\ pc = "Failed"
    /\ style = "Narrative"
    /\ story_map.new_title = "Star Ella"
    /\ err.msg = "Invalid style. Choose from"

(***************************************************************************)
(* C7  The run is linear and single-pass.  Every step of a run either      *)
(* leaves the pipeline state alone or takes one of the transitions         *)
(* Idle -> Extracting -> Mapping -> Generating -> Done, or goes from one   *)
(* of the three working states to Failed; so no state is entered twice and *)
(* no step goes back to an earlier stage.                                  *)
(***************************************************************************)
Forward ==
    {<<"Idle", "Extracting">>, <<"Extracting", "Mapping">>,
     <<"Mapping", "Generating">>, <<"Generating", "Done">>,
     <<"Extracting", "Failed">>, <<"Mapping", "Failed">>,
     <<"Generating", "Failed">>}

C7_LinearSinglePass == [][pc' # pc => <<pc, pc'>> \in Forward]_vars

\* a run that went through all three stages, the last two with a retry
C7_Witness ==
    /\ pc = "Done"
    /\ Len(CallsOf("Extracting")) = 1
    /\ Len(CallsOf("Mapping")) = 2
    /\ Len(CallsOf("Generating")) = 2

(***************************************************************************)
(* C8  A stage failure is terminal.  A failed run holds no result value,   *)
(* not even one made of the essence or map of the stages that succeeded,   *)
(* and from the failure on nothing changes any more: no stage is entered   *)
(* or run again and no remote call or sleep is added.                      *)
(***************************************************************************)
C8_NoResult == pc = "Failed" => (result = NoResult /\ err # NoError)

C8_Stopped ==
    pc = "Failed" =>
        /\ pc' = "Failed"
        /\ log' = log
        /\ result' = result
        /\ err' = err

C8_FailureIsTerminal == [](C8_NoResult) /\ [][C8_Stopped]_vars

\* Extract succeeded, Map's response did not validate, the run has no result
C8_Witness ==
    /\ pc = "Failed"
    /\ essence.title = "Ashes"
    /\ story_map = NoStoryMap
    /\ err.msg = "Failed to parse mapping response"
    /\ result = NoResult

(***************************************************************************)
(* C9  The result is the aggregate of the stage outputs.  In a finished    *)
(* run the result's story is the very text the adapter returned to         *)
(* Generate, its contract has the declared fields of the object returned   *)
(* to Extract with their values in order, its map likewise those of the    *)
(* object returned to Map, and its style is the style passed in.           *)
(***************************************************************************)
\* the response that the invocation of a stage returned
Returned(stage) == CallsOf(stage)[Len(CallsOf(stage))].resp

\* the list of models l holds the string fields of the JSON array a, in order
SameModels(l, a, fields) ==
    /\ Len(l) = Len(a)
    /\ \A i \in 1..Len(l) :
        /\ DOMAIN l[i] = fields
        /\ \A f \in fields : l[i][f] = a[i].o[f].s

\* the list of strings l holds the JSON strings of a, in order
SameStrings(l, a) ==
    /\ Len(l) = Len(a)
    /\ \A i \in 1..Len(l) : l[i] = a[i].s

C9_ResultIsAggregate ==
    pc = "Done" =>
        LET e == Returned("Extracting").val.o
            m == Returned("Mapping").val.o
        IN  /\ result.returned
            /\ DOMAIN result = {"returned", "story", "contract", "map", "style"}
            /\ result.story = Returned("Generating")
            /\ result.style = style
            /\ result.contract = essence
            /\ DOMAIN result.contract =
                  {"title", "logline", "themes", "characters", "plot_beats"}
            /\ result.contract.title = e.title.s
            /\ result.contract.logline = e.logline.s
            /\ SameStrings(result.contract.themes, e.themes.a)
            /\ SameModels(result.contract.characters, e.characters.a,
                          CharacterFields)
            /\ SameModels(result.contract.plot_beats, e.plot_beats.a,
                          PlotBeatFields)
            /\ result.map = story_map
            /\ DOMAIN result.map =
                  {"new_title", "new_logline", "characters", "setting",
                   "plot_outline"}
            /\ result.map.new_title = m.new_title.s
            /\ result.map.new_logline = m.new_logline.s
            /\ SameModels(result.map.characters, m.characters.a,
                          NewCharacterFields)
            /\ result.map.setting = m.setting.o
            /\ SameStrings(result.map.plot_outline, m.plot_outline.a)

\* a finished run whose story text begins and ends with whitespace
C9_Witness ==
    /\ pc = "Done"
    /\ result.story = Prose(<<" ", "a", " ", "b", "\n">>)
    /\ result.contract.title = "Ashes"
    /\ result.map.new_title = "Vex"
    /\ result.style = "epic"

(***************************************************************************)
(* C10  The command line invokes the entry point the core provides.  A     *)
(* run of main with an API key, an accepted source whose story Extract     *)
(* accepts, a target Map accepts, a valid style and no failed remote call  *)
(* does not end in the exit that reports a failed pipeline.                *)
(***************************************************************************)
GoodCommandLine ==
    /\ get_api_key(args) # ""
    /\ load_source_story(args.source).ok
    /\ TrimmedLen(load_source_story(args.source).text) >= 50
    /\ TrimmedLen(args.target) >= 3
    /\ choose_style(args.style, args.choice)
          \in {"narrative", "screenplay", "satirical", "epic"}
    /\ \A i \in 1..Len(log) : log[i].ok

C10_CliRunsPipeline ==
    (args # NoArgs /\ GoodCommandLine) =>
        ~(cli = "exit" /\ exit_msg = "Pipeline failed")

(***************************************************************************)
(* C11  Every failure of the core is the typed pipeline failure.  A run    *)
(* that failed before Generate was called, whatever text the adapter       *)
(* returned to Extract or Map, failed with TransformationError.            *)
(***************************************************************************)
C11_TypedFailure ==
    (pc = "Failed" /\ CallsOf("Generating") = <<>>)
        => err.type = "TransformationError"

(***************************************************************************)
(* C12  Stages run in sequence on the prior stage's validated output.      *)
(* The remote calls of a run are observed stage by stage in the order      *)
(* Extract, Map, Generate; a call for Map is made only after Extract's     *)
(* call returned a response that validated, and its prompt holds the       *)
(* declared fields of that response and the target; a call for Generate is *)
(* made only after Map's call returned a response that validated, and its  *)
(* prompt holds the title of that response and the target; and while one   *)
(* call is due no other stage is running.                                  *)
(***************************************************************************)
Rank(stage) ==
    CASE stage = "Extracting" -> 1
      [] stage = "Mapping" -> 2
      [] OTHER -> 3

EssenceKeys == {"title", "logline", "themes", "characters", "plot_beats"}

\* the text is a JSON object that has every field of the shape of the stage
Validates(stage, text) ==
    /\ text.kind = "json"
    /\ text.val.t = "obj"
    /\ Rejected(stage, text.val.o) = {}

C12_StagesInSequence ==
    /\ \A i, j \in 1..Len(log) :
          i < j => Rank(log[i].stage) <= Rank(log[j].stage)
    /\ \A i \in 1..Len(log) :
          (IsCall(log[i]) /\ log[i].stage = "Mapping") =>
             LET r == Returned("Extracting") IN
             /\ Validates("Extracting", r)
             /\ log[i].prompt.template = <<"MAPPING_PROMPT">>
             /\ log[i].prompt.target_context = target
             /\ log[i].prompt.contract_json.t = "obj"
             /\ DOMAIN log[i].prompt.contract_json.o = EssenceKeys
             /\ \A f \in EssenceKeys :
                   log[i].prompt.contract_json.o[f] = r.val.o[f]
    /\ \A i \in 1..Len(log) :
          (IsCall(log[i]) /\ log[i].stage = "Generating") =>
             LET r == Returned("Mapping") IN
             /\ Validates("Mapping", r)
             /\ log[i].prompt.new_title = r.val.o.new_title.s
             /\ log[i].prompt.target_context = target
    /\ at = "call" =>
          /\ pc \in WorkingStages
          /\ \A i \in 1..Len(log) : Rank(log[i].stage) <= Rank(pc)
          /\ pc = "Mapping" => essence # NoEssence
          /\ pc = "Generating" => story_map # NoStoryMap

\* Generate's call was made with the title Map returned, after Map's call was
\* made with the essence Extract returned
C12_Witness ==
    /\ Len(CallsOf("Generating")) = 1
    /\ CallsOf("Generating")[1].prompt.new_title = "Vex"
    /\ CallsOf("Mapping")[1].prompt.contract_json.o.title = JStr("Ashes")
    /\ Len(CallsOf("Mapping")) = 2

(***************************************************************************)
(* C14  Every Character of an essence that extract returned has non-empty  *)
(* strings for name, archetype, role, motivation and core_trait.           *)
(***************************************************************************)
C14_CharacterFieldsNonEmpty ==
    \A i \in 1..Len(essence.characters) :
        \A f \in {"name", "archetype", "role", "motivation", "core_trait"} :
            essence.characters[i][f] # ""

(***************************************************************************)
(* C15  The fixed delay is observed before each retry and only there.      *)
(* Every sleep lasts RETRY_DELAY, comes right after a failed call of the   *)
(* same invocation and is followed by the next call of that invocation     *)
(* (which is due while the sleep is the last thing observed); a failed     *)
(* call that is not the last permitted one is followed by exactly one      *)
(* sleep; nothing follows the last permitted failure, and no sleep         *)
(* follows a call that returned.  So an invocation that has ended made one *)
(* sleep fewer than calls, at most MAX_RETRIES - 1.                        *)
(***************************************************************************)
SleepsOf(stage) ==
    SelectSeq(log, LAMBDA e : e.ev = "sleep" /\ e.stage = stage)

\* how many calls of its own invocation precede and include log[i]
CallNumber(i) ==
    Cardinality({j \in 1..i : IsCall(log[j]) /\ log[j].stage = log[i].stage})

C15_SleepBeforeRetryOnly ==
    /\ \A i \in 1..Len(log) :
        LET e == log[i] IN
        /\ e.ev = "sleep" =>
              /\ e.delay = 2
              /\ i > 1
              /\ IsCall(log[i - 1])
              /\ ~log[i - 1].ok
              /\ log[i - 1].stage = e.stage
              /\ IF i < Len(log)
                 THEN IsCall(log[i + 1]) /\ log[i + 1].stage = e.stage
                 ELSE pc = e.stage /\ at = "call"
        /\ (IsCall(e) /\ ~e.ok /\ CallNumber(i) < 3) =>
              (i < Len(log) /\ log[i + 1].ev = "sleep")
        /\ (IsCall(e) /\ ~e.ok /\ CallNumber(i) >= 3) =>
              (i = Len(log) /\ pc = "Failed")
        /\ (IsCall(e) /\ e.ok /\ i < Len(log)) =>
              (IsCall(log[i + 1]) /\ log[i + 1].stage # e.stage)
    /\ \A stage \in WorkingStages :
        /\ Len(SleepsOf(stage)) <= 2
        /\ (CallsOf(stage) # <<>> /\ ~(pc = stage /\ at = "call")) =>
              Len(SleepsOf(stage)) = Len(CallsOf(stage)) - 1
        /\ (pc = stage /\ at = "call") =>
              Len(SleepsOf(stage)) = Len(CallsOf(stage))

\* Generate's call failed three times: two sleeps, none after the last failure
C15_Witness ==
    /\ pc = "Failed"
    /\ Len(CallsOf("Generating")) = 3
    /\ Len(SleepsOf("Generating")) = 2
    /\ Len(SleepsOf("Extracting")) = 0
    /\ Len(SleepsOf("Mapping")) = 1
    /\ IsCall(log[Len(log)])

(***************************************************************************)
(* C16  Retries apply uniformly to all adapter-level error kinds.  While   *)
(* an attempt is due it can fail in each of the four ways, and whatever    *)
(* the way, the failure is followed by a sleep of RETRY_DELAY and another  *)
(* attempt with the same prompt if fewer than MAX_RETRIES attempts have    *)
(* been made, and ends the run with the adapter error otherwise.           *)
(***************************************************************************)
C16_EveryKindCanFail ==
    at = "call" =>
        \A kind \in {"transport", "rate_limit", "service", "envelope"} :
            ENABLED call_llm_except(kind)

C16_SameTreatment ==
    \A kind \in {"transport", "rate_limit", "service", "envelope"} :
        call_llm_except(kind) =>
            LET made == Len(CallsOf(pc)) + 1 IN
            IF made < 3
            THEN /\ pc' = pc
                 /\ at' = "call"
                 /\ prompt' = prompt
                 /\ json_mode' = json_mode
                 /\ err' = NoError
                 /\ Len(log') = Len(log) + 2
                 /\ IsCall(log'[Len(log) + 1])
                 /\ ~log'[Len(log) + 1].ok
                 /\ log'[Len(log) + 2].ev = "sleep"
                 /\ log'[Len(log) + 2].delay = 2
            ELSE /\ made = 3
                 /\ pc' = "Failed"
                 /\ err'.msg = "API call failed"
                 /\ Len(log') = Len(log) + 1

C16_UniformRetry == [](C16_EveryKindCanFail) /\ [][C16_SameTreatment]_vars

\* the first attempt of Map failed, was followed by a sleep, and a second
\* attempt is due
C16_Witness ==
    /\ pc = "Mapping"
    /\ at = "call"
    /\ attempt = 1
    /\ Len(CallsOf("Mapping")) = 1
    /\ log[Len(log)].ev = "sleep"

(***************************************************************************)
(* C17  The structured-output flag is fixed per stage.  Every remote call  *)
(* observed for Extract or Map, first attempt or retry, asked for a JSON   *)
(* object, and every remote call observed for Generate asked for free      *)
(* text; the same holds of the attempt that is due.                        *)
(***************************************************************************)
C17_JsonModePerStage ==
    /\ \A i \in 1..Len(log) :
          IsCall(log[i]) =>
             (log[i].json_mode <=> log[i].stage \in {"Extracting", "Mapping"})
    /\ at = "call" => (json_mode <=> pc \in {"Extracting", "Mapping"})

\* retries with the flag set for Extract and Map and unset for Generate
C17_Witness ==
    /\ Len(CallsOf("Extracting")) = 2
    /\ Len(CallsOf("Mapping")) = 3
    /\ Len(CallsOf("Generating")) = 2
    /\ CallsOf("Extracting")[2].json_mode
    /\ CallsOf("Mapping")[3].json_mode
    /\ ~CallsOf("Generating")[2].json_mode

(***************************************************************************)
(* C18  Generate renders its prompt data in order.  In every remote call   *)
(* observed for Generate, the character list of the prompt is, for the     *)
(* characters of the map that Map's response held and in their order, the  *)
(* line  "- " new_name ": " description  of each, with one newline between *)
(* two lines and nothing else; the plot outline is the entries of the      *)
(* response's plot_outline in their order with one newline between two;    *)
(* and the template is the one keyed by the style of the run.              *)
(***************************************************************************)
\* txt is the lines line(1) .. line(n), of width pieces each, with a newline
\* between two of them
IsLines(txt, n, width, line(_)) ==
    /\ Len(txt) = IF n = 0 THEN 0 ELSE n * (width + 1) - 1
    /\ \A i \in 1..n :
        /\ SubSeq(txt, (i - 1) * (width + 1) + 1, (i - 1) * (width + 1) + width)
              = line(i)
        /\ i < n => txt[i * (width + 1)] = "\n"

C18_PromptRenderedInOrder ==
    \A k \in 1..Len(log) :
        (IsCall(log[k]) /\ log[k].stage = "Generating") =>
            LET m == Returned("Mapping").val.o
                cs == m.characters.a
                ps == m.plot_outline.a
                CharacterLine(i) ==
                    <<"- ", cs[i].o.new_name.s, ": ", cs[i].o.description.s>>
                PlotLine(i) == <<ps[i].s>>
            IN  /\ IsLines(log[k].prompt.characters_list, Len(cs), 4,
                           CharacterLine)
                /\ IsLines(log[k].prompt.plot_outline, Len(ps), 1, PlotLine)
                /\ log[k].prompt.template = <<"GENERATION_PROMPTS", style>>
                /\ style \in {"narrative", "screenplay", "satirical", "epic"}

\* the satirical prompt for a map of two characters and two scenes was sent
C18_Witness ==
    /\ Len(CallsOf("Generating")) = 1
    /\ style = "satirical"
    /\ CallsOf("Generating")[1].prompt.characters_list =
          <<"- ", "Vex", ": ", "An admiral", "\n",
            "- ", "Ella", ": ", "A cadet">>
    /\ CallsOf("Generating")[1].prompt.plot_outline =
          <<"Scene two", "\n", "Scene one">>

(***************************************************************************)
(* C19  Every run terminates with a bounded number of remote calls.  The   *)
(* loop variable of _call_llm stays below MAX_RETRIES, an invocation that  *)
(* has returned got its response from a call that succeeded, a run never   *)
(* makes more than 9 remote calls, a finished run without a failed call    *)
(* made exactly 3, one per stage; and, every remote attempt returning or   *)
(* raising and the program being left to run, every run that has started   *)
(* reaches Done or Failed.                                                 *)
(***************************************************************************)
\* the sequential program keeps running, and every remote attempt ends
FairSpec == Spec /\ WF_vars(Next)

AllCalls == SelectSeq(log, IsCall)

C19_Bounded ==
    /\ attempt \in 0..2
    /\ Len(AllCalls) <= 9
    /\ (at = "ret") =>
          /\ pc \in WorkingStages
          /\ CallsOf(pc) # <<>>
          /\ CallsOf(pc)[Len(CallsOf(pc))].ok
          /\ response = CallsOf(pc)[Len(CallsOf(pc))].resp
    /\ (pc = "Done" /\ \A i \in 1..Len(log) : log[i].ok) =>
          /\ Len(log) = 3
          /\ log[1].stage = "Extracting"
          /\ log[2].stage = "Mapping"
          /\ log[3].stage = "Generating"
    /\ pc \in {"Done", "Failed"} => at = "-"

C19_Terminates ==
    [](C19_Bounded) /\ ((pc # "Idle") ~> (pc \in {"Done", "Failed"}))

\* nine remote calls: two failures before each success, or a last failure
C19_Witness ==
    /\ pc \in {"Done", "Failed"}
    /\ Len(AllCalls) = 9
    /\ Len(CallsOf("Generating")) = 3

(***************************************************************************)
(* C20  Preconditions are checked when their stage is reached, not at the  *)
(* start of the run.  A run rejected for its target has completed Extract  *)
(* (its last Extract call succeeded and the essence is there) and has made *)
(* no Map call; a run rejected for its style has completed Extract and Map *)
(* and has made no Generate call.  With no failed call the former made     *)
(* exactly one remote call and the latter exactly two.  The only rejection *)
(* that precedes every call is the one of the story.                       *)
(***************************************************************************)
Completed(stage) ==
    /\ CallsOf(stage) # <<>>
    /\ CallsOf(stage)[Len(CallsOf(stage))].ok

NoFailedCall == \A i \in 1..Len(AllCalls) : AllCalls[i].ok

C20_PreconditionsAtStageEntry ==
    /\ (pc = "Failed" /\ err.msg = "Target setting is required") =>
          /\ Completed("Extracting")
          /\ essence # NoEssence
          /\ CallsOf("Mapping") = <<>>
          /\ CallsOf("Generating") = <<>>
          /\ NoFailedCall => Len(AllCalls) = 1
    /\ (pc = "Failed" /\ err.msg = "Invalid style. Choose from") =>
          /\ Completed("Extracting")
          /\ Completed("Mapping")
          /\ essence # NoEssence
          /\ story_map # NoStoryMap
          /\ CallsOf("Generating") = <<>>
          /\ NoFailedCall => Len(AllCalls) = 2
    /\ (pc = "Failed" /\ cli = "none" /\ AllCalls = <<>>) =>
          err.msg = "Story text is too short or empty"

\* a valid story, a fault-free adapter and an unknown style: two calls
C20_Witness ==
    /\ pc = "Failed"
    /\ err.msg = "Invalid style. Choose from"
    /\ ~ StoryTooShort(story)
    /\ NoFailedCall
    /\ Len(log) = 2
    /\ log[1].stage = "Extracting"
    /\ log[2].stage = "Mapping"

(***************************************************************************)
(* C13  Determinism of the pipeline.  Against an adapter that answers the  *)
(* same prompt with the same response or the same fault, a second run of   *)
(* transform with the same story, target and style ends as the first did:  *)
(* both succeed or both fail, with the same error or the same result       *)
(* (essence, story map, story text, style), after the same sequence of     *)
(* remote calls, prompt for prompt, and the same sleeps.                   *)
(***************************************************************************)
C13_Deterministic ==
    (run1.pc # "Idle" /\ pc \in {"Done", "Failed"}) =>
        /\ pc = run1.pc
        /\ err = run1.err
        /\ result = run1.result
        /\ Len(log) = Len(run1.log)
        /\ \A k \in 1..Len(log) :
            /\ log[k].ev = run1.log[k].ev
            /\ log[k].prompt = run1.log[k].prompt
            /\ log[k] = run1.log[k]

\* both runs went through the three stages with one call each
C13_Witness ==
    /\ run1.pc = "Done"
    /\ pc = "Done"
    /\ Len(log) = 3
    /\ Len(run1.log) = 3
    /\ result.style = "epic"

(***************************************************************************)
(* C21  The command line's acceptance of raw text agrees with the          *)
(* precondition of Extract.  When main has been given a key and a source   *)
(* that is neither the existing file nor the keyword, it stops with "not a *)
(* valid file or story text" exactly when extract would refuse that text   *)
(* as too short (trimmed length below 50).                                 *)
(***************************************************************************)
RawText(source_arg) ==
    /\ source_arg # FilePath
    /\ lower(source_arg) # lower(Keyword)

CliRejected == cli = "exit" /\ exit_msg = "not a valid file or story text"

C21_RawTextAgreesWithExtract ==
    (cli # "none" /\ get_api_key(args) # "" /\ RawText(args.source)) =>
        (CliRejected <=> StoryTooShort(args.source))

====
